---------------------------- MODULE Spec2Model ----------------------------
(***************************************************************************)
(* A model of the deep-merge engine of k8s-openapi (src/src/deep_merge.rs): *)
(* the DeepMerge trait's impls (scalars, serde_json::Value, Box, Option)    *)
(* and the collection strategies (list::atomic/map/set, map::granular/     *)
(* atomic).  The engine is a library of functions that mutate a target in   *)
(* place; every action below is one call: it draws the source argument,    *)
(* remembers the target's value before the call and stores the target's    *)
(* value after it.                                                          *)
(***************************************************************************)
EXTENDS Integers, Sequences, FiniteSets, TLC

VARIABLES
  op,      \* the function called last ("init" before any call)
  field,   \* what is being merged: its type, or its strategy and parameters
  self,    \* the target (`&mut self` / `old`), as it is now
  other,   \* the source (`other` / `new`) consumed by the last call
  before,  \* the target as it was when the last call started
  iters,   \* list::map, list::set, map::granular: the collection on entry to
           \* the last call's loop and after each of its iterations (empty
           \* when no loop ran)
  calls    \* a run of merge_from calls on one JSON target: for each call so far,
           \* the target it started from and the patch it merged (empty where
           \* the calls are not recorded)

vars == <<op, field, self, other, before, iters, calls>>

----------------------------------------------------------------------------
(* Bounds of the model. *)

MaxNum == 2      \* JSON numbers and i32 values are 1..MaxNum
MaxArrLen == 1   \* JSON arrays have at most this many elements
MaxId == 2       \* list items have ids (set elements are) 1..MaxId
MaxLen == 2      \* the lists drawn as old and new have at most this many items
MaxKeys == 3     \* the maps drawn as old and new use the first MaxKeys keys
MaxCalls == 2    \* a recorded run of merge_from calls has at most this many

----------------------------------------------------------------------------
(* Option<T>: None is the empty sequence, Some(x) the one-element sequence. *)

None == <<>>
Some(x) == <<x>>
is_some(o) == o # <<>>
unwrap(o) == o[1]

----------------------------------------------------------------------------
(* serde_json::Value.  Every value is a record [t, v]: t is the variant,    *)
(* v its payload (an object's payload is a function from its keys).         *)

Null == [t |-> "null", v |-> 0]
Num(n) == [t |-> "num", v |-> n]
Arr(s) == [t |-> "arr", v |-> s]
Obj(f) == [t |-> "obj", v |-> f]

\* The map with no entries, and the object with the one entry k: v.
EmptyMap == [x \in {} |-> Null]
OnlyKey(k, v) == Obj([x \in {k} |-> v])

is_null(v) == v.t = "null"
is_object(v) == v.t = "obj"

\* serde_json::Map (a BTreeMap): unique keys, iterated in key order.
KeyOrder == <<"a", "b", "c", "d">>
JsonKeys == {"a", "b"}
JsonInnerKeys == {"a"}

\* A remove that leaves the entry where it is.
remove_noop(m, k) == m

\* Map::remove: the key's entry is dropped, if there is one.
remove(m, k) == [x \in DOMAIN m \ {k} |-> m[x]]

\* Storing through the `&mut V` that entry(k).or_insert(..) hands out.
insert(m, k, v) == [x \in DOMAIN m \cup {k} |-> IF x = k THEN v ELSE m[x]]

\* An or_insert that puts an empty object where the key is missing.
or_insert_object(m, k, default) ==
  IF k \in DOMAIN m THEN m[k] ELSE [t |-> "obj", v |-> [x \in {} |-> default]]

\* Map::entry(k).or_insert(default): the value the entry holds afterwards.
or_insert(m, k, default) == IF k \in DOMAIN m THEN m[k] ELSE default

\* IntoIterator for Map: the keys, in order.
into_iter(m) == SelectSeq(KeyOrder, LAMBDA k : k \in DOMAIN m)

RECURSIVE merge_from_Value(_, _)
RECURSIVE merge_object(_, _, _)

\* An entry update that leaves an entry the target already has as it is.
merge_entry_keep(this, k, v) == IF k \in DOMAIN this THEN this ELSE insert(this, k, v)

\* An entry update that stores v over whatever the entry held.
merge_entry_replace(this, k, v) == insert(this, k, v)

\* `this.entry(k).or_insert(Value::Null).merge_from(v)` (line 84).
merge_entry(this, k, v) ==
  insert(this, k, merge_from_Value(or_insert(this, k, Null), v))

\* A loop that returns after its first entry.
merge_object_first(this, o, ks) ==
  IF ks = <<>> THEN this
  ELSE IF is_null(o[Head(ks)]) THEN remove(this, Head(ks))
       ELSE merge_entry(this, Head(ks), o[Head(ks)])

\* The loop `for (k, v) in other` (lines 79-86); ks are the keys still to visit.
merge_object(this, o, ks) ==
  IF ks = <<>> THEN this
  ELSE LET k == Head(ks)
           v == o[k]
           next == IF is_null(v) THEN remove(this, k) ELSE merge_entry(this, k, v)
       IN merge_object(next, o, Tail(ks))

\* A merge that takes a non-object target for an empty object when the patch
\* is an object, instead of replacing it.
merge_from_Value_rfc(s, o) ==
  IF is_object(o)
  THEN Obj(merge_object(IF is_object(s) THEN s.v ELSE EmptyMap, o.v, into_iter(o.v)))
  ELSE o

\* impl DeepMerge for serde_json::Value (lines 75-94).
merge_from_Value(s, o) ==
  IF is_object(s) /\ is_object(o)
  THEN Obj(merge_object(s.v, o.v, into_iter(o.v)))
  ELSE o

\* How deep the calls of merge_from nest below the first one: the call at
\* line 84 is made for every non-null member of an object patch whose target
\* is an object, on the entry the key has or the Null put there for it.
RECURSIVE descents(_, _)
descents(s, o) ==
  IF is_object(s) /\ is_object(o)
  THEN LET below == {1 + descents(or_insert(s.v, k, Null), o.v[k]) :
                       k \in {x \in DOMAIN o.v : ~is_null(o.v[x])}}
       IN IF below = {} THEN 0 ELSE CHOOSE d \in below : \A e \in below : e <= d
  ELSE 0

----------------------------------------------------------------------------
(* The JSON trees the model draws targets and patches from. *)

JsonNums == {Num(n) : n \in 1..MaxNum}
JsonArrays == {Arr(s) : s \in UNION {[1..n -> {Null}] : n \in 0..MaxArrLen}}
JsonLeaves == {Null} \cup JsonNums \cup JsonArrays
ObjectsOver(keys, vals) ==
  {Obj(f) : f \in UNION {[S -> vals] : S \in SUBSET keys}}
JsonInner == JsonLeaves \cup ObjectsOver(JsonInnerKeys, {Null, Num(1)})
JsonValues == JsonLeaves \cup ObjectsOver(JsonKeys, JsonInner)

----------------------------------------------------------------------------
(* Calls of merge_from on a serde_json::Value. *)

FieldValue == [c |-> "Value"]

InitValue ==
  /\ op = "init"
  /\ field = FieldValue
  /\ self \in JsonValues
  /\ other = Null
  /\ before = self
  /\ iters = <<>>
  /\ calls = <<>>

MergeFromValue ==
  /\ field.c = "Value"
  /\ \E o \in JsonValues :
       /\ other' = o
       /\ before' = self
       /\ self' = merge_from_Value(self, o)
  /\ op' = "merge_from"
  /\ UNCHANGED <<field, iters, calls>>

NextValue == MergeFromValue

SpecValue == InitValue /\ [][NextValue]_vars

----------------------------------------------------------------------------
(* Claims about merge_from on serde_json::Value. *)

a1b2 == Obj([k \in {"a", "b"} |-> IF k = "a" THEN Num(1) ELSE Num(2)])
BothObjects == op = "merge_from" /\ field.c = "Value"
               /\ is_object(before) /\ is_object(other)

\* RFC 7396, section 2, MergePatch(Target, Patch): the reference algorithm.
\* A missing Target[Name] is passed on as a non-object (Null stands for it).
RECURSIVE MergePatch(_, _)
MergePatch(Target, Patch) ==
  IF is_object(Patch)
  THEN LET T == IF is_object(Target) THEN Target.v ELSE EmptyMap
           P == Patch.v
           kept == {k \in DOMAIN T : ~(k \in DOMAIN P /\ is_null(P[k]))}
           set == {k \in DOMAIN P : ~is_null(P[k])}
       IN Obj([k \in kept \cup set |->
                 IF k \in set
                 THEN MergePatch(IF k \in DOMAIN T THEN T[k] ELSE Null, P[k])
                 ELSE T[k]])
  ELSE Patch

\* C2: after merge_from(target, patch) the target equals RFC 7396's
\* MergePatch(target, patch), for every target and patch.
C2_ImplementsRfc7396 ==
  (op = "merge_from" /\ field.c = "Value") => self = MergePatch(before, other)

\* C3: when target and patch are both objects, every key whose patch value is
\* null is absent from the target after the merge.
C3_DeleteOnNull ==
  BothObjects =>
    \A k \in DOMAIN other.v : is_null(other.v[k]) => k \notin DOMAIN self.v

\* {"a":1,"b":2} patched with {"a":null} has become {"b":2}.
C3_Witness ==
  /\ BothObjects
  /\ before = a1b2
  /\ other = OnlyKey("a", Null)
  /\ self = OnlyKey("b", Num(2))

\* C4: when target and patch are both objects, a key of the target that the
\* patch does not mention keeps its value, and a key present in both with a
\* non-null patch value holds the merge of the patch value into the old value.
C4_ObjectFrame ==
  BothObjects =>
    /\ \A k \in DOMAIN before.v \ DOMAIN other.v :
         k \in DOMAIN self.v /\ self.v[k] = before.v[k]
    /\ \A k \in DOMAIN before.v \cap DOMAIN other.v :
         ~is_null(other.v[k]) =>
           /\ k \in DOMAIN self.v
           /\ self.v[k] = merge_from_Value(before.v[k], other.v[k])

\* {"a":{"a":1},"b":2} patched with {"a":{"a":null}}: "b" is kept and the
\* patch is merged into the nested object, which loses its key.
C4_Witness ==
  /\ BothObjects
  /\ before = Obj([k \in {"a", "b"} |->
                     IF k = "a" THEN OnlyKey("a", Num(1)) ELSE Num(2)])
  /\ other = OnlyKey("a", OnlyKey("a", Null))
  /\ self = Obj([k \in {"a", "b"} |-> IF k = "a" THEN Obj(EmptyMap) ELSE Num(2)])

----------------------------------------------------------------------------
(* The DeepMerge impls of typed values.  A type is a record: [c |-> "i32"], *)
(* [c |-> "Option", of |-> T], ...; merge_from(T, s, o) is the impl the     *)
(* compiler selects for `s.merge_from(o)` with s, o : T.                    *)

I32 == [c |-> "i32"]
Bool == [c |-> "bool"]
I64 == [c |-> "i64"]
F64 == [c |-> "f64"]
String == [c |-> "String"]
ByteString == [c |-> "ByteString"]
DateTime == [c |-> "DateTime"]
Value == [c |-> "Value"]
BoxOf(T) == [c |-> "Box", of |-> T]
OptionOf(T) == [c |-> "Option", of |-> T]
QuobyteVolumeSource == [c |-> "QuobyteVolumeSource"]

\* A Box is its heap allocation and what the allocation holds.  Two boxes
\* alive at the same time never share an allocation.
Allocs == {"p", "q"}
Box(a, x) == [alloc |-> a, boxed |-> x]

\* The types with `default_overwriting_impl! {}` (lines 67-73).
ScalarTypes == {"bool", "i32", "i64", "f64", "String", "ByteString", "DateTime"}
IsScalar(T) == T.c \in ScalarTypes

\* An impl that leaves self as it is.
default_overwriting_impl_keep(s, o) == s

\* default_overwriting_impl!: `*self = other`.
default_overwriting_impl(s, o) == o

RECURSIVE merge_from(_, _, _)

\* impl DeepMerge for Box<T>: `(**self).merge_from(*other)`.
\* A Box merge that takes the source box for the target.
merge_from_Box_take(T, s, o) == o

\* `**self` is the target's allocation, `*other` moves the content out of
\* the source's, which is then freed.
merge_from_Box(T, s, o) == Box(s.alloc, merge_from(T.of, s.boxed, o.boxed))

\* An Option merge that assigns the source, present or not.
merge_from_Option_assign(T, s, o) == o

\* An Option merge that takes a present source whole, without T's merge.
merge_from_Option_overwrite(T, s, o) == IF is_some(o) THEN o ELSE s

\* impl DeepMerge for Option<T> (lines 102-112).
merge_from_Option(T, s, o) ==
  IF is_some(o)
  THEN IF is_some(s)
       THEN Some(merge_from(T.of, unwrap(s), unwrap(o)))
       ELSE Some(unwrap(o))
  ELSE s

\* The DeepMerge impl of a struct, here of
\*   struct QuobyteVolumeSource { group: Option<String>, read_only: Option<bool>,
\*                                registry: String, user: Option<String>,
\*                                volume: String }
\* written the way the trait's documentation prescribes:
\* `self.f.merge_from(other.f);` for each field f, in declaration order.
merge_from_QuobyteVolumeSource(s, o) ==
  [group |-> merge_from(OptionOf(String), s.group, o.group),
   read_only |-> merge_from(OptionOf(Bool), s.read_only, o.read_only),
   registry |-> merge_from(String, s.registry, o.registry),
   user |-> merge_from(OptionOf(String), s.user, o.user),
   volume |-> merge_from(String, s.volume, o.volume)]

merge_from(T, s, o) ==
  CASE IsScalar(T) -> default_overwriting_impl(s, o)
    [] T.c = "Value" -> merge_from_Value(s, o)
    [] T.c = "Box" -> merge_from_Box(T, s, o)
    [] T.c = "Option" -> merge_from_Option(T, s, o)
    [] T.c = "QuobyteVolumeSource" -> merge_from_QuobyteVolumeSource(s, o)

\* The values of a type the model draws from.
RECURSIVE ValuesOf(_)
ValuesOf(T) ==
  CASE T.c = "i32" -> 1..MaxNum
    [] T.c = "bool" -> BOOLEAN
    [] T.c = "i64" -> 1..MaxNum
    [] T.c = "f64" -> 1..MaxNum
    [] T.c = "String" -> {"", "x"}
    [] T.c = "ByteString" -> {"", "x"}
    [] T.c = "DateTime" -> 1..MaxNum
    [] T.c = "Value" -> JsonInner
    [] T.c = "Box" -> {Box(a, x) : a \in Allocs, x \in ValuesOf(T.of)}
    [] T.c = "Option" -> {None} \cup {Some(x) : x \in ValuesOf(T.of)}
    [] T.c = "QuobyteVolumeSource" ->
         [group : ValuesOf(OptionOf(String)), read_only : ValuesOf(OptionOf(Bool)),
          registry : ValuesOf(String), user : ValuesOf(OptionOf(String)),
          volume : ValuesOf(String)]

\* The allocations a value owns.
RECURSIVE Allocations(_, _)
Allocations(T, x) ==
  CASE T.c = "Box" -> {x.alloc} \cup Allocations(T.of, x.boxed)
    [] T.c = "Option" -> IF is_some(x) THEN Allocations(T.of, unwrap(x)) ELSE {}
    [] OTHER -> {}

\* The sources a target can be merged with: values of its type that share no
\* allocation with it.
SourcesFor(T, s) ==
  {o \in ValuesOf(T) : Allocations(T, o) \cap Allocations(T, s) = {}}

TypedFields ==
  {I32, Bool, I64, F64, String, ByteString, DateTime,
   BoxOf(I32), BoxOf(OptionOf(I32)),
   OptionOf(I32), OptionOf(Bool), OptionOf(Value),
   OptionOf(OptionOf(I32)), OptionOf(BoxOf(I32)),
   QuobyteVolumeSource}

InitTyped ==
  /\ op = "init"
  /\ field \in TypedFields
  /\ self \in ValuesOf(field)
  /\ other = self
  /\ before = self
  /\ iters = <<>>
  /\ calls = <<>>

MergeFromScalar ==
  /\ IsScalar(field)
  /\ \E o \in ValuesOf(field) :
       /\ other' = o
       /\ before' = self
       /\ self' = default_overwriting_impl(self, o)
  /\ op' = "merge_from"
  /\ UNCHANGED <<field, iters, calls>>

MergeFromBox ==
  /\ field.c = "Box"
  /\ \E o \in SourcesFor(field, self) :
       /\ other' = o
       /\ before' = self
       /\ self' = merge_from_Box(field, self, o)
  /\ op' = "merge_from"
  /\ UNCHANGED <<field, iters, calls>>

MergeFromOption ==
  /\ field.c = "Option"
  /\ \E o \in SourcesFor(field, self) :
       /\ other' = o
       /\ before' = self
       /\ self' = merge_from_Option(field, self, o)
  /\ op' = "merge_from"
  /\ UNCHANGED <<field, iters, calls>>

MergeFromStruct ==
  /\ field.c = "QuobyteVolumeSource"
  /\ \E o \in SourcesFor(field, self) :
       /\ other' = o
       /\ before' = self
       /\ self' = merge_from_QuobyteVolumeSource(self, o)
  /\ op' = "merge_from"
  /\ UNCHANGED <<field, iters, calls>>

NextTyped == MergeFromScalar \/ MergeFromBox \/ MergeFromOption \/ MergeFromStruct

SpecTyped == InitTyped /\ [][NextTyped]_vars

----------------------------------------------------------------------------
(* Claims about merge_from on Option<T>. *)

OptionMerged == op = "merge_from" /\ field.c = "Option"

\* C1: Option merge: merge(None, None) = None; merge(None, Some(x)) = Some(x);
\* merge(Some(x), None) = Some(x); merge(Some(x), Some(y)) = Some(merge(x, y)),
\* with T's own merge inside.
C1_OptionMerge ==
  OptionMerged =>
    /\ (before = None /\ other = None) => self = None
    /\ (before = None /\ is_some(other)) => self = other
    /\ (is_some(before) /\ other = None) => self = before
    /\ (is_some(before) /\ is_some(other)) =>
         self = Some(merge_from(field.of, unwrap(before), unwrap(other)))

\* Some(Some(1)) merged with Some(None) on an Option<Option<i32>>: the inner
\* merge keeps Some(1), where taking the source would have left Some(None).
C1_Witness ==
  /\ OptionMerged
  /\ field = OptionOf(OptionOf(I32))
  /\ before = Some(Some(1))
  /\ other = Some(None)
  /\ self = Some(Some(1))

----------------------------------------------------------------------------
(* Claims about merge_from on scalars, Box<T> and structs. *)

\* C15: for bool, i32, i64, f64, String, ByteString and DateTime, merge_from
\* makes the target equal to the source, whatever the target held.
C15_ScalarOverwrite ==
  (op = "merge_from" /\ IsScalar(field)) => self = other

\* The String "x" merged with "" has become "".
C15_Witness ==
  /\ op = "merge_from" /\ field = String
  /\ before = "x"
  /\ other = ""
  /\ self = ""

\* What merging the source `new` into `old` leaves, for a scalar and for an
\* Option of a scalar.
Overwritten(old, new) == new
OptionOverwritten(old, new) == IF new = None THEN old ELSE new

\* C16: merging Box(b) into Box(a) leaves the target's box, with its own
\* allocation and not the source's, holding the merge of b into a by T's
\* merge.
C16_BoxMergesContent ==
  (op = "merge_from" /\ field.c = "Box") =>
    /\ self.alloc = before.alloc
    /\ self.alloc # other.alloc
    /\ self.boxed = IF IsScalar(field.of)
                    THEN Overwritten(before.boxed, other.boxed)
                    ELSE OptionOverwritten(before.boxed, other.boxed)

\* A Box<Option<i32>>: the box at p holding Some(1), merged with the box at q
\* holding None, is still the box at p and still holds Some(1).
C16_Witness ==
  /\ op = "merge_from" /\ field = BoxOf(OptionOf(I32))
  /\ before = Box("p", Some(1))
  /\ other = Box("q", None)
  /\ self = Box("p", Some(1))

\* C17: a struct's merge is field by field: each field of the result is the
\* merge of that field of the target with that field of the source, whatever
\* the other fields hold; a field whose source is an absent Option is left as
\* it was.
C17_StructFieldByField ==
  (op = "merge_from" /\ field.c = "QuobyteVolumeSource") =>
    /\ self.group = OptionOverwritten(before.group, other.group)
    /\ self.read_only = OptionOverwritten(before.read_only, other.read_only)
    /\ self.registry = Overwritten(before.registry, other.registry)
    /\ self.user = OptionOverwritten(before.user, other.user)
    /\ self.volume = Overwritten(before.volume, other.volume)

\* The source names a registry and a user and leaves group and read_only
\* absent: the target takes the two and keeps its group and read_only.
C17_Witness ==
  /\ op = "merge_from" /\ field.c = "QuobyteVolumeSource"
  /\ before = [group |-> Some("x"), read_only |-> Some(TRUE), registry |-> "x",
               user |-> None, volume |-> "x"]
  /\ other = [group |-> None, read_only |-> None, registry |-> "",
              user |-> Some("x"), volume |-> "x"]
  /\ self = [group |-> Some("x"), read_only |-> Some(TRUE), registry |-> "",
             user |-> Some("x"), volume |-> "x"]

----------------------------------------------------------------------------
(* strategies::list.  V names the carrier a strategy is instantiated with:  *)
(* "Vec" for Vec<T>, "Option<Vec>" for Option<Vec<T>>.                      *)

\* A set that assigns new whether it is present or not.
AsOptVec_set_always(V, old, new) == new

\* AsOptVec::set: `*self = new` for Vec, only `if new.is_some()` for Option.
AsOptVec_set(V, old, new) ==
  IF V = "Vec" THEN new
  ELSE IF is_some(new) THEN new ELSE old

\* AsOptVec::as_mut_opt: `Some(self)` for Vec, `self.as_mut()` for Option.
AsOptVec_as_mut_opt(V, old) == IF V = "Vec" THEN Some(old) ELSE old

\* AsOptVec::into_opt: `Some(self)` for Vec, `self` for Option.
AsOptVec_into_opt(V, new) == IF V = "Vec" THEN Some(new) ELSE new

\* The carrier after the Vec behind as_mut_opt's `&mut Vec` has become vec.
write_back(V, vec) == IF V = "Vec" THEN vec ELSE Some(vec)

\* An iterator that has lost new's first item.
flatten_rest(o) == IF is_some(o) /\ unwrap(o) # <<>> THEN Tail(unwrap(o)) ELSE <<>>

\* `new.AsOptVec_into_opt().into_iter().flatten()`: the items of new, none if absent.
flatten(o) == IF is_some(o) THEN unwrap(o) ELSE <<>>

Last(s) == s[Len(s)]
Range(s) == {s[i] : i \in 1..Len(s)}

\* A push that puts the item in front.
push_front(vec, x) == <<x>> \o vec

\* Vec::push.
push(vec, x) == Append(vec, x)

\* The key comparators a caller may pass: fn(&Item, &Item) -> bool.
by_id(lhs, rhs) == lhs.id = rhs.id
by_v(lhs, rhs) == lhs.v = rhs.v
call_comparator(f, lhs, rhs) ==
  CASE f = "by_id" -> by_id(lhs, rhs)
    [] f = "by_v" -> by_v(lhs, rhs)

\* The merge_item a caller may pass: fn(&mut Item, Item).  "overwrite" is
\* `*old = new`; "deep" is the item struct's DeepMerge, field by field
\* (id: i32, v: Option<i32>).
call_merge_item(f, old_item, new_item) ==
  CASE f = "overwrite" -> new_item
    [] f = "deep" ->
         [id |-> merge_from(I32, old_item.id, new_item.id),
          v |-> merge_from(OptionOf(I32), old_item.v, new_item.v)]

\* A match that is content with one comparator accepting.
all_any(key_comparators, new_item, old_item) ==
  \E j \in 1..Len(key_comparators) :
    call_comparator(key_comparators[j], new_item, old_item)

\* A match that needs at least one comparator.
all_nonempty(key_comparators, new_item, old_item) ==
  /\ key_comparators # <<>>
  /\ \A j \in 1..Len(key_comparators) :
       call_comparator(key_comparators[j], new_item, old_item)

\* `key_comparators.iter().all(|f| f(&new_item, old_item))`.
all(key_comparators, new_item, old_item) ==
  \A j \in 1..Len(key_comparators) :
    call_comparator(key_comparators[j], new_item, old_item)

\* A find that returns the last old item all comparators accept.
find_last(old, new_item, key_comparators) ==
  LET hits == {i \in 1..Len(old) : all(key_comparators, new_item, old[i])}
  IN IF hits = {} THEN 0 ELSE CHOOSE i \in hits : \A h \in hits : h <= i

\* A find that never looks at the last old item.
find_but_last(old, new_item, key_comparators) ==
  LET hits == {i \in 1..(Len(old) - 1) : all(key_comparators, new_item, old[i])}
  IN IF hits = {} THEN 0 ELSE CHOOSE i \in hits : \A h \in hits : i <= h

\* `old.iter_mut().find(..)`: the position of the first old item all
\* comparators accept, 0 for None.
find(old, new_item, key_comparators) ==
  LET hits == {i \in 1..Len(old) : all(key_comparators, new_item, old[i])}
  IN IF hits = {} THEN 0 ELSE CHOOSE i \in hits : \A h \in hits : i <= h

\* One iteration of list::map's loop (lines 179-183).
map_iteration(old, new_item, key_comparators, merge_item) ==
  LET i == find(old, new_item, key_comparators)
  IN IF i # 0
     THEN [old EXCEPT ![i] = call_merge_item(merge_item, old[i], new_item)]
     ELSE push(old, new_item)

\* A loop that looks for each new item's match in the Vec as it was on entry.
RECURSIVE map_loop_from(_, _, _, _, _)
map_loop_from(entry, old, items, key_comparators, merge_item) ==
  IF items = <<>> THEN <<old>>
  ELSE LET i == find(entry, Head(items), key_comparators)
           next == IF i # 0
                   THEN [old EXCEPT ![i] = call_merge_item(merge_item, old[i], Head(items))]
                   ELSE push(old, Head(items))
       IN <<old>> \o map_loop_from(entry, next, Tail(items), key_comparators, merge_item)

map_loop_on_entry(old, items, key_comparators, merge_item) ==
  map_loop_from(old, old, items, key_comparators, merge_item)

\* list::map's loop (lines 178-184): the Vec on entry and after each item.
RECURSIVE map_loop(_, _, _, _)
map_loop(old, items, key_comparators, merge_item) ==
  IF items = <<>> THEN <<old>>
  ELSE <<old>> \o map_loop(map_iteration(old, Head(items), key_comparators, merge_item),
                           Tail(items), key_comparators, merge_item)

\* strategies::list::map (lines 168-188): the Vec states of its loop, none
\* when old is absent.
list_map_iters(V, old, new, key_comparators, merge_item) ==
  IF is_some(AsOptVec_as_mut_opt(V, old))
  THEN map_loop(unwrap(AsOptVec_as_mut_opt(V, old)), flatten(AsOptVec_into_opt(V, new)),
                key_comparators, merge_item)
  ELSE <<>>

\* A list::map that takes an absent old for an empty Vec and runs its loop.
list_map_or_default(V, old, new, key_comparators, merge_item) ==
  write_back(V, Last(map_loop(flatten(AsOptVec_as_mut_opt(V, old)),
                              flatten(AsOptVec_into_opt(V, new)),
                              key_comparators, merge_item)))

\* strategies::list::map (lines 168-188): old after the call.
list_map(V, old, new, key_comparators, merge_item) ==
  IF is_some(AsOptVec_as_mut_opt(V, old))
  THEN write_back(V, Last(list_map_iters(V, old, new, key_comparators, merge_item)))
  ELSE AsOptVec_set(V, old, new)

\* A contains that looks at the first element only.
contains_head(old, item) == old # <<>> /\ old[1] = item

\* `old.contains(&item)`.
contains(old, item) == \E i \in 1..Len(old) : old[i] = item

\* An iteration that appends without looking.
set_iteration_push(old, item) == push(old, item)

\* An iteration with the test the wrong way round.
set_iteration_negated(old, item) == IF contains(old, item) THEN push(old, item) ELSE old

\* One iteration of list::set's loop (lines 195-197).
set_iteration(old, item) == IF ~contains(old, item) THEN push(old, item) ELSE old

\* A loop that looks for each item in the Vec as it was on entry.
set_loop_on_entry(old, items) ==
  <<old>> \o [i \in 1..Len(items) |->
              old \o SelectSeq(SubSeq(items, 1, i), LAMBDA x : ~contains(old, x))]

\* list::set's loop (lines 194-198): the Vec on entry and after each item.
RECURSIVE set_loop(_, _)
set_loop(old, items) ==
  IF items = <<>> THEN <<old>>
  ELSE <<old>> \o set_loop(set_iteration(old, Head(items)), Tail(items))

\* strategies::list::set (lines 192-202): the Vec states of its loop.
list_set_iters(V, old, new) ==
  IF is_some(AsOptVec_as_mut_opt(V, old))
  THEN set_loop(unwrap(AsOptVec_as_mut_opt(V, old)), flatten(AsOptVec_into_opt(V, new)))
  ELSE <<>>

\* strategies::list::set (lines 192-202): old after the call.
list_set(V, old, new) ==
  IF is_some(AsOptVec_as_mut_opt(V, old))
  THEN write_back(V, Last(list_set_iters(V, old, new)))
  ELSE AsOptVec_set(V, old, new)

\* An atomic replace that takes an empty new for nothing to do.
list_atomic_nonempty(V, old, new) ==
  IF flatten(AsOptVec_into_opt(V, new)) = <<>> THEN old ELSE AsOptVec_set(V, old, new)

\* strategies::list::atomic (lines 162-164).
list_atomic(V, old, new) == AsOptVec_set(V, old, new)

----------------------------------------------------------------------------
(* Calls of the list strategies.  A field has one strategy, one carrier and *)
(* (for list::map) one comparator list and merge_item; each drawn old is    *)
(* merged once with each drawn new.                                         *)

Carriers == {"Vec", "Option<Vec>"}

Items == [id : 1..MaxId, v : {None, Some(1)}]
ItemLists == UNION {[1..n -> Items] : n \in 0..MaxLen}
IdLists == UNION {[1..n -> 1..MaxId] : n \in 0..MaxLen}

Carried(V, lists) ==
  IF V = "Vec" THEN lists ELSE {None} \cup {Some(l) : l \in lists}

ListMapFields ==
  [c : {"list::map"}, carrier : Carriers,
   key_comparators : {<<>>, <<"by_id">>, <<"by_id", "by_v">>},
   merge_item : {"overwrite", "deep"}]
ListSetFields == [c : {"list::set"}, carrier : Carriers]
ListAtomicFields == [c : {"list::atomic"}, carrier : Carriers]

ListsOf(f) ==
  Carried(f.carrier, IF f.c = "list::map" THEN ItemLists ELSE IdLists)

InitList ==
  /\ op = "init"
  /\ field \in ListMapFields \cup ListSetFields \cup ListAtomicFields
  /\ self \in ListsOf(field)
  /\ other = self
  /\ before = self
  /\ iters = <<>>
  /\ calls = <<>>

ListAtomic ==
  /\ op = "init" /\ field.c = "list::atomic"
  /\ \E new \in ListsOf(field) :
       /\ other' = new
       /\ before' = self
       /\ self' = list_atomic(field.carrier, self, new)
  /\ op' = "list::atomic"
  /\ UNCHANGED <<field, iters, calls>>

ListMap ==
  /\ op = "init" /\ field.c = "list::map"
  /\ \E new \in ListsOf(field) :
       /\ other' = new
       /\ before' = self
       /\ self' = list_map(field.carrier, self, new,
                           field.key_comparators, field.merge_item)
       /\ iters' = list_map_iters(field.carrier, self, new,
                                  field.key_comparators, field.merge_item)
  /\ op' = "list::map"
  /\ UNCHANGED <<field, calls>>

ListSet ==
  /\ op = "init" /\ field.c = "list::set"
  /\ \E new \in ListsOf(field) :
       /\ other' = new
       /\ before' = self
       /\ self' = list_set(field.carrier, self, new)
       /\ iters' = list_set_iters(field.carrier, self, new)
  /\ op' = "list::set"
  /\ UNCHANGED <<field, calls>>

NextList == ListAtomic \/ ListMap \/ ListSet

SpecList == InitList /\ [][NextList]_vars

----------------------------------------------------------------------------
(* Claims about list::map and list::set with a present old. *)

Item(i, x) == [id |-> i, v |-> x]

\* list::map (list::set) ran its loop: old was present.
MapLooped == op = "list::map" /\ iters # <<>>
SetLooped == op = "list::set" /\ iters # <<>>

\* The items of new the loop went through, in order.
NewItems == flatten(AsOptVec_into_opt(field.carrier, other))

\* new_item satisfies every key comparator of the field against old_item.
Matches(new_item, old_item) ==
  /\ ("by_id" \in Range(field.key_comparators)) => new_item.id = old_item.id
  /\ ("by_v" \in Range(field.key_comparators)) => new_item.v = old_item.v

\* What the field's merge_item makes of old_item when given new_item.
Merged(old_item, new_item) ==
  IF field.merge_item = "overwrite" THEN new_item
  ELSE Item(new_item.id, IF new_item.v = None THEN old_item.v ELSE new_item.v)

\* C6: list::map with a present old: each item of new, in order, is merged by
\* merge_item into an item of old that satisfies all key comparators against
\* it, old's length staying as it is, or, if there is no such item, appended.
C6_MapMergeOrAppend ==
  MapLooped =>
    /\ Len(iters) = Len(NewItems) + 1
    /\ write_back(field.carrier, iters[1]) = before
    /\ write_back(field.carrier, Last(iters)) = self
    /\ \A j \in 1..Len(NewItems) :
         LET old == iters[j]
             now == iters[j + 1]
             hits == {i \in 1..Len(old) : Matches(NewItems[j], old[i])}
         IN IF hits # {}
            THEN /\ Len(now) = Len(old)
                 /\ \E i \in hits :
                      now = [old EXCEPT ![i] = Merged(old[i], NewItems[j])]
            ELSE now = old \o <<NewItems[j]>>

\* old [{id 1, v None}], new [{id 1, v Some(1)}, {id 2, v None}], comparator on
\* id, overwriting merge_item: the first new item is merged into old's item,
\* the second is appended.
C6_Witness ==
  /\ MapLooped
  /\ field.key_comparators = <<"by_id">> /\ field.merge_item = "overwrite"
  /\ iters[1] = <<Item(1, None)>>
  /\ NewItems = <<Item(1, Some(1)), Item(2, None)>>
  /\ self = write_back(field.carrier, <<Item(1, Some(1)), Item(2, None)>>)

\* The positions in new of the unmatched items: those no item of the Vec
\* satisfied all comparators against when the loop came to them.
RECURSIVE UnmatchedFrom(_)
UnmatchedFrom(j) ==
  IF j > Len(NewItems) THEN <<>>
  ELSE (IF \E i \in 1..Len(iters[j]) : Matches(NewItems[j], iters[j][i])
        THEN <<>> ELSE <<j>>)
       \o UnmatchedFrom(j + 1)

\* Every iteration leaves each of the first m positions holding its item,
\* untouched or merged with the new item, which then matches it.
PositionsKept(m) ==
  \A j \in 1..Len(NewItems) :
    \A i \in 1..m :
      i <= Len(iters[j]) =>
        \/ iters[j + 1][i] = iters[j][i]
        \/ /\ Matches(NewItems[j], iters[j][i])
           /\ iters[j + 1][i] = Merged(iters[j][i], NewItems[j])

\* C7 as stated: after list::map on a present old of length n the first n
\* positions hold the original items in their order, untouched or merged, and
\* the items after position n are exactly the unmatched new items, in the
\* order they were met.
C7_TailIsUnmatchedNew ==
  MapLooped =>
    LET n == Len(iters[1])
        result == Last(iters)
        unmatched == UnmatchedFrom(1)
    IN /\ Len(result) >= n
       /\ PositionsKept(n)
       /\ SubSeq(result, n + 1, Len(result))
            = [k \in 1..Len(unmatched) |-> NewItems[unmatched[k]]]

\* C7 (amended): list::map on a present old of length n removes and reorders
\* nothing: every position keeps its item, untouched or merged with matching
\* new items, so the first n positions are the original items in their order;
\* the k-th unmatched new item is put at position n + k when it is met, and
\* the result has one position after n for each of them, in that order, each
\* holding the item as appended or merged with later new items that match it.
C7_MapKeepsOrder ==
  MapLooped =>
    LET n == Len(iters[1])
        result == Last(iters)
        unmatched == UnmatchedFrom(1)
    IN /\ PositionsKept(Len(result))
       /\ Len(result) = n + Len(unmatched)
       /\ \A k \in 1..Len(unmatched) :
            /\ Len(iters[unmatched[k] + 1]) = n + k
            /\ iters[unmatched[k] + 1][n + k] = NewItems[unmatched[k]]
       /\ \A j \in 1..Len(NewItems) : Len(iters[j + 1]) >= Len(iters[j])

\* old [{id 2, v None}], new [{id 1, v None}, {id 1, v Some(1)}], comparator on
\* id: old's item stays in front; the first new item is appended and the
\* second is merged into it, so the one item after old's is {id 1, v Some(1)}.
C7_Witness ==
  /\ MapLooped
  /\ field.key_comparators = <<"by_id">>
  /\ iters[1] = <<Item(2, None)>>
  /\ NewItems = <<Item(1, None), Item(1, Some(1))>>
  /\ self = write_back(field.carrier, <<Item(2, None), Item(1, Some(1))>>)

\* C8: when more than one item of old satisfies all key comparators against a
\* new item, the new item is merged into the first of them and every other
\* item, the later matches included, is left as it was.
C8_MapFirstMatchOnly ==
  MapLooped =>
    \A j \in 1..Len(NewItems) :
      LET old == iters[j]
          now == iters[j + 1]
          hits == {i \in 1..Len(old) : Matches(NewItems[j], old[i])}
      IN Cardinality(hits) > 1 =>
           \E first \in hits :
             /\ \A h \in hits : first <= h
             /\ now = [old EXCEPT ![first] = Merged(old[first], NewItems[j])]

\* old holds {id 1, v None} twice; new [{id 1, v Some(1)}] with a comparator on
\* id matches both and changes only the first.
C8_Witness ==
  /\ MapLooped
  /\ field.key_comparators = <<"by_id">>
  /\ iters[1] = <<Item(1, None), Item(1, None)>>
  /\ NewItems = <<Item(1, Some(1))>>
  /\ self = write_back(field.carrier, <<Item(1, Some(1)), Item(1, None)>>)

\* C9: list::set with a present old: each item of new is appended only if no
\* element then in old equals it; old's original elements stay as an unchanged
\* prefix of the result, and the result contains every item of new.
C9_SetAppendsIfAbsent ==
  SetLooped =>
    LET n == Len(iters[1])
        result == Last(iters)
    IN /\ Len(iters) = Len(NewItems) + 1
       /\ write_back(field.carrier, iters[1]) = before
       /\ write_back(field.carrier, result) = self
       /\ \A j \in 1..Len(NewItems) :
            iters[j + 1] = IF NewItems[j] \in Range(iters[j])
                           THEN iters[j]
                           ELSE iters[j] \o <<NewItems[j]>>
       /\ SubSeq(result, 1, n) = iters[1]
       /\ Range(NewItems) \subseteq Range(result)

\* old [1], new [1, 2]: 1 is already there, 2 is appended: [1, 2].
C9_Witness ==
  /\ SetLooped
  /\ iters[1] = <<1>>
  /\ NewItems = <<1, 2>>
  /\ self = write_back(field.carrier, <<1, 2>>)

----------------------------------------------------------------------------
(* strategies::map.  M names the carrier: "BTreeMap" for BTreeMap<K, V>,    *)
(* "Option<BTreeMap>" for Option<BTreeMap<K, V>>.                           *)

\* A set that assigns new whether it is present or not.
AsOptMap_set_always(M, old, new) == new

\* AsOptMap::set: `*self = new` for BTreeMap, only `if new.is_some()` for Option.
AsOptMap_set(M, old, new) ==
  IF M = "BTreeMap" THEN new
  ELSE IF is_some(new) THEN new ELSE old

\* AsOptMap::as_mut_opt: `Some(self)` for BTreeMap, `self.as_mut()` for Option.
AsOptMap_as_mut_opt(M, old) == IF M = "BTreeMap" THEN Some(old) ELSE old

\* AsOptMap::into_opt: `Some(self)` for BTreeMap, `self` for Option.
AsOptMap_into_opt(M, new) == IF M = "BTreeMap" THEN Some(new) ELSE new

\* The carrier after the map behind as_mut_opt's `&mut BTreeMap` has become m.
map_write_back(M, m) == IF M = "BTreeMap" THEN m ELSE Some(m)

\* `new.into_opt().into_iter().flatten()`: the entries of new, none if absent.
map_flatten(o) == IF is_some(o) THEN unwrap(o) ELSE EmptyMap

\* The merge_value a caller may pass: fn(&mut V, V), for V = serde_json::Value.
\* "overwrite" is `*old = new`; "deep" is V's DeepMerge.
call_merge_value(f, old_v, new_v) ==
  CASE f = "overwrite" -> new_v
    [] f = "deep" -> merge_from(Value, old_v, new_v)

\* An iteration that stores new_v over an occupied entry too.
granular_iteration_insert(old, k, new_v, merge_value) == insert(old, k, new_v)

\* One iteration of map::granular's loop: `match old.entry(k)` (lines 263-266).
granular_iteration(old, k, new_v, merge_value) ==
  IF k \notin DOMAIN old
  THEN insert(old, k, new_v)
  ELSE insert(old, k, call_merge_value(merge_value, old[k], new_v))

\* map::granular's loop (lines 262-267); ks are the keys of new still to visit.
RECURSIVE granular_loop(_, _, _, _)
granular_loop(old, new, ks, merge_value) ==
  IF ks = <<>> THEN old
  ELSE granular_loop(granular_iteration(old, Head(ks), new[Head(ks)], merge_value),
                     new, Tail(ks), merge_value)

\* map::granular's loop (lines 262-267): the map on entry and after each entry
\* of new.
RECURSIVE granular_loop_states(_, _, _, _)
granular_loop_states(old, new, ks, merge_value) ==
  IF ks = <<>> THEN <<old>>
  ELSE <<old>> \o granular_loop_states(
                    granular_iteration(old, Head(ks), new[Head(ks)], merge_value),
                    new, Tail(ks), merge_value)

\* strategies::map::granular (lines 256-271): the map states of its loop, none
\* when old is absent.
map_granular_iters(M, old, new, merge_value) ==
  IF is_some(AsOptMap_as_mut_opt(M, old))
  THEN LET entries == map_flatten(AsOptMap_into_opt(M, new))
       IN granular_loop_states(unwrap(AsOptMap_as_mut_opt(M, old)),
                               entries, into_iter(entries), merge_value)
  ELSE <<>>

\* strategies::map::granular (lines 256-271): old after the call.
map_granular(M, old, new, merge_value) ==
  IF is_some(AsOptMap_as_mut_opt(M, old))
  THEN LET entries == map_flatten(AsOptMap_into_opt(M, new))
       IN map_write_back(M, granular_loop(unwrap(AsOptMap_as_mut_opt(M, old)),
                                          entries, into_iter(entries), merge_value))
  ELSE AsOptMap_set(M, old, new)

\* strategies::map::atomic (lines 273-275).
map_atomic(M, old, new) == AsOptMap_set(M, old, new)

----------------------------------------------------------------------------
(* Calls of the map strategies: BTreeMap<String, serde_json::Value> fields, *)
(* each drawn old merged once with each drawn new.                          *)

MapCarriers == {"BTreeMap", "Option<BTreeMap>"}

MapKeys == {KeyOrder[i] : i \in 1..MaxKeys}
MapValues == {OnlyKey("a", Num(1)), OnlyKey("b", Num(1)), OnlyKey("a", Null)}
Maps == UNION {[S -> MapValues] : S \in SUBSET MapKeys}

MapsOf(f) ==
  IF f.carrier = "BTreeMap" THEN Maps ELSE {None} \cup {Some(m) : m \in Maps}

MapGranularFields ==
  [c : {"map::granular"}, carrier : MapCarriers,
   merge_value : {"overwrite", "deep"}]
MapAtomicFields == [c : {"map::atomic"}, carrier : MapCarriers]

InitMap ==
  /\ op = "init"
  /\ field \in MapGranularFields \cup MapAtomicFields
  /\ self \in MapsOf(field)
  /\ other = self
  /\ before = self
  /\ iters = <<>>
  /\ calls = <<>>

MapGranular ==
  /\ op = "init" /\ field.c = "map::granular"
  /\ \E new \in MapsOf(field) :
       /\ other' = new
       /\ before' = self
       /\ self' = map_granular(field.carrier, self, new, field.merge_value)
       /\ iters' = map_granular_iters(field.carrier, self, new, field.merge_value)
  /\ op' = "map::granular"
  /\ UNCHANGED <<field, calls>>

MapAtomic ==
  /\ op = "init" /\ field.c = "map::atomic"
  /\ \E new \in MapsOf(field) :
       /\ other' = new
       /\ before' = self
       /\ self' = map_atomic(field.carrier, self, new)
  /\ op' = "map::atomic"
  /\ UNCHANGED <<field, iters, calls>>

NextMap == MapGranular \/ MapAtomic

SpecMap == InitMap /\ [][NextMap]_vars

----------------------------------------------------------------------------
(* Claims about map::granular with a present old. *)

\* map::granular ran its loop: old was present.
GranularLooped ==
  op = "map::granular" /\ is_some(AsOptMap_as_mut_opt(field.carrier, before))

\* C10: map::granular with a present old: a key of new that is in old has the
\* new value merged by merge_value into the old one, a key of new that is not
\* in old is inserted with new's value as it is, and a key of old that is not
\* in new keeps its value: the result's keys are the union of both key sets.
C10_GranularPerKey ==
  GranularLooped =>
    LET old == unwrap(AsOptMap_as_mut_opt(field.carrier, before))
        new == map_flatten(AsOptMap_into_opt(field.carrier, other))
        result == unwrap(AsOptMap_as_mut_opt(field.carrier, self))
    IN /\ is_some(AsOptMap_as_mut_opt(field.carrier, self))
       /\ DOMAIN result = DOMAIN old \cup DOMAIN new
       /\ \A k \in DOMAIN new \cap DOMAIN old :
            result[k] = IF field.merge_value = "overwrite" THEN new[k]
                        ELSE merge_from_Value(old[k], new[k])
       /\ \A k \in DOMAIN new \ DOMAIN old : result[k] = new[k]
       /\ \A k \in DOMAIN old \ DOMAIN new : result[k] = old[k]

\* old {a:{a:1}, b:{a:1}}, new {b:{b:1}, c:{a:null}}, merge_value the values'
\* own merge: a is kept, b becomes {a:1, b:1}, c is inserted as it is.
C10_Witness ==
  /\ GranularLooped
  /\ field.merge_value = "deep"
  /\ unwrap(AsOptMap_as_mut_opt(field.carrier, before))
       = [k \in {"a", "b"} |-> OnlyKey("a", Num(1))]
  /\ map_flatten(AsOptMap_into_opt(field.carrier, other))
       = [k \in {"b", "c"} |->
            IF k = "b" THEN OnlyKey("b", Num(1)) ELSE OnlyKey("a", Null)]
  /\ unwrap(AsOptMap_as_mut_opt(field.carrier, self))
       = [k \in {"a", "b", "c"} |->
            CASE k = "a" -> OnlyKey("a", Num(1))
              [] k = "b" -> Obj([x \in {"a", "b"} |-> Num(1)])
              [] k = "c" -> OnlyKey("a", Null)]

----------------------------------------------------------------------------
(* Every kind of target together: a JSON value, a typed value, a list field  *)
(* or a map field, with the calls its kind has.                              *)

InitAll == InitValue \/ InitTyped \/ InitList \/ InitMap

NextAll == NextValue \/ NextTyped \/ NextList \/ NextMap

SpecAll == InitAll /\ [][NextAll]_vars

----------------------------------------------------------------------------
(* Claims about the five collection strategies together. *)

Strategies == {"list::atomic", "list::map", "list::set", "map::granular", "map::atomic"}

\* The field's carrier is the optional one.
OptionalCarrier == field.carrier \in {"Option<Vec>", "Option<BTreeMap>"}

\* C11: list::atomic and map::atomic: whenever new is present (always for a
\* bare collection, Some for an optional one) the result equals new, whatever
\* old held, also when new is an empty collection.
C11_AtomicReplace ==
  (op \in {"list::atomic", "map::atomic"} /\ (OptionalCarrier => is_some(other)))
  => self = other

\* list::atomic on a Vec: old [1, 2] replaced by the empty new.
C11_Witness ==
  /\ op = "list::atomic" /\ field.carrier = "Vec"
  /\ before = <<1, 2>>
  /\ other = <<>>
  /\ self = <<>>

\* C12: under each of the five strategies, when old is an optional collection
\* that is absent, the result is new if new is present and stays absent if new
\* is absent, and the strategy's loop does not run: no key comparator,
\* merge_item, merge_value or equality test is applied.
C12_AbsentOld ==
  (op \in Strategies /\ OptionalCarrier /\ before = None)
  => (self = other /\ iters = <<>>)

\* list::map with a comparator on id, absent old, new Some([{id 1, v None},
\* {id 1, v Some(1)}]): new is taken as it is, its two items with the same id
\* included.
C12_Witness ==
  /\ op = "list::map" /\ field.carrier = "Option<Vec>"
  /\ field.key_comparators = <<"by_id">>
  /\ before = None
  /\ other = Some(<<Item(1, None), Item(1, Some(1))>>)
  /\ self = other
  /\ iters = <<>>

----------------------------------------------------------------------------
(* Claims about every kind of merge. *)

\* A value without its allocations: what a copy of it has in common with it.
RECURSIVE Contents(_, _)
Contents(T, x) ==
  CASE T.c = "Box" -> [boxed |-> Contents(T.of, x.boxed)]
    [] T.c = "Option" -> IF is_some(x) THEN Some(Contents(T.of, unwrap(x))) ELSE None
    [] OTHER -> x

\* The last call merged the target with an identical copy of itself.
SelfMerged == op # "init" /\ Contents(field, other) = Contents(field, before)

\* No object of the JSON value v, reached through objects, has a null member.
RECURSIVE NullFree(_)
NullFree(v) ==
  is_object(v) => \A k \in DOMAIN v.v : ~is_null(v.v[k]) /\ NullFree(v.v[k])

\* Every item of the list has a first item of the list that satisfies all key
\* comparators against it,
\* and merge_item leaves that item as it is when given the item.
FirstMatchesKept(list) ==
  \A j \in 1..Len(list) :
    \E i \in 1..j :
      /\ Matches(list[j], list[i])
      /\ \A h \in 1..(i - 1) : ~Matches(list[j], list[h])
      /\ Merged(list[i], list[j]) = list[i]

SelfMergeKeeps ==
  CASE field.c = "Value" -> NullFree(before)
    [] field = OptionOf(Value) -> is_some(before) => NullFree(unwrap(before))
    [] field.c = "map::granular" ->
         (field.merge_value = "deep" /\ is_some(AsOptMap_as_mut_opt(field.carrier, before)))
         => LET old == unwrap(AsOptMap_as_mut_opt(field.carrier, before))
            IN \A k \in DOMAIN old : NullFree(old[k])
    [] field.c = "list::map" ->
         is_some(AsOptVec_as_mut_opt(field.carrier, before))
         => FirstMatchesKept(unwrap(AsOptVec_as_mut_opt(field.carrier, before)))
    [] OTHER -> TRUE

OptionalTarget ==
  \/ field.c = "Option"
  \/ field.c \in Strategies /\ OptionalCarrier

\* C14: a merge never clears a typed optional: an Option<T> target, or an
\* optional collection under any of the five strategies, is present after a
\* merge if and only if the target or the source was present before it, so a
\* present target stays present through any sequence of merges; the same holds
\* of an Option inside a present Option.
C14_NeverCleared ==
  (op # "init" /\ OptionalTarget) =>
    /\ is_some(self) <=> (is_some(before) \/ is_some(other))
    /\ (field.c = "Option" /\ field.of.c = "Option"
          /\ is_some(before) /\ is_some(other))
       => (is_some(unwrap(self))
             <=> (is_some(unwrap(before)) \/ is_some(unwrap(other))))

\* list::atomic on an Option<Vec>: old Some([1]) and an absent new leave
\* Some([1]).
C14_Witness ==
  /\ op = "list::atomic" /\ field.carrier = "Option<Vec>"
  /\ before = Some(<<1>>)
  /\ other = None
  /\ self = Some(<<1>>)

\* Scalars: the result is the source, so merging two different values the
\* other way round gives a different result.
ScalarSourceWins ==
  (op = "merge_from" /\ IsScalar(field)) =>
    /\ self = other
    /\ before # other => merge_from(field, other, before) # self

\* JSON objects: keys only the target has keep the target's value.
TargetKeysKept ==
  BothObjects =>
    \A k \in DOMAIN before.v \ DOMAIN other.v :
      k \in DOMAIN self.v /\ self.v[k] = before.v[k]

\* The keys both objects give a non-null value.
SharedKeys ==
  {k \in DOMAIN before.v \cap DOMAIN other.v :
     ~is_null(before.v[k]) /\ ~is_null(other.v[k])}

\* C18 as stated: merge is not commutative and the source has precedence: for
\* scalars the result is the source; for JSON objects a key given a non-null
\* value by both sides takes the source's value, and keys only in the target
\* keep the target's value.
C18_SourceValueTaken ==
  /\ ScalarSourceWins
  /\ TargetKeysKept
  /\ BothObjects =>
       \A k \in SharedKeys : k \in DOMAIN self.v /\ self.v[k] = other.v[k]

\* C18 (amended): as stated, except that a key given an object by both sides
\* holds the merge of the source's object into the target's, not the source's
\* object; it takes the source's value when one of the two is not an object.
C18_SourcePrecedence ==
  /\ ScalarSourceWins
  /\ TargetKeysKept
  /\ BothObjects =>
       \A k \in SharedKeys :
         /\ k \in DOMAIN self.v
         /\ self.v[k] = IF is_object(before.v[k]) /\ is_object(other.v[k])
                        THEN merge_from_Value(before.v[k], other.v[k])
                        ELSE other.v[k]

\* {"a":{"a":1},"b":1} merged with {"a":{},"b":2}: "b" takes the source's 2,
\* "a" keeps the target's member under the source's empty object, and merging
\* the two the other way round gives something else.
C18_Witness ==
  /\ BothObjects
  /\ before = Obj([k \in {"a", "b"} |-> IF k = "a" THEN OnlyKey("a", Num(1)) ELSE Num(1)])
  /\ other = Obj([k \in {"a", "b"} |-> IF k = "a" THEN Obj(EmptyMap) ELSE Num(2)])
  /\ self = Obj([k \in {"a", "b"} |-> IF k = "a" THEN OnlyKey("a", Num(1)) ELSE Num(2)])
  /\ merge_from_Value(other, before) # self

\* The nesting depth of a JSON value: 0 for a scalar, one more than its
\* deepest element or member for an array or object.
RECURSIVE Depth(_)
Depth(v) ==
  CASE is_object(v) ->
         LET ds == {Depth(v.v[k]) : k \in DOMAIN v.v}
         IN 1 + (IF ds = {} THEN 0 ELSE CHOOSE d \in ds : \A e \in ds : e <= d)
    [] v.t = "arr" ->
         LET ds == {Depth(v.v[i]) : i \in 1..Len(v.v)}
         IN 1 + (IF ds = {} THEN 0 ELSE CHOOSE d \in ds : \A e \in ds : e <= d)
    [] OTHER -> 0

\* The JSON merge nests its calls at most as deep as the patch is nested.
JsonDescentsBounded ==
  (op = "merge_from" /\ field.c = "Value") => descents(before, other) <= Depth(other)

\* The iterations the last call's loop made, and the elements new held.
Iterations == IF iters = <<>> THEN 0 ELSE Len(iters) - 1
NewElements ==
  LET size(c) == IF field.c \in {"map::granular", "map::atomic"}
                 THEN Cardinality(DOMAIN c) ELSE Len(c)
  IN IF OptionalCarrier
     THEN (IF is_some(other) THEN size(unwrap(other)) ELSE 0)
     ELSE size(other)

\* old was present when the last call started.
OldPresent == OptionalCarrier => is_some(before)

\* C20 as stated: the JSON merge recurses at most as deep as the patch is
\* nested, and each collection strategy performs exactly one iteration per
\* element of new.
C20_OneIterationPerElement ==
  /\ JsonDescentsBounded
  /\ op \in Strategies => Iterations = NewElements

\* C20 (amended): the JSON merge recurses at most as deep as the patch is
\* nested; list::map, list::set and map::granular perform exactly one
\* iteration per element of new when old is present and none when old is
\* absent; list::atomic and map::atomic perform none.
C20_BoundedWork ==
  /\ JsonDescentsBounded
  /\ (op \in {"list::map", "list::set", "map::granular"} /\ OldPresent)
     => Iterations = NewElements
  /\ (op \in {"list::map", "list::set", "map::granular"} /\ ~OldPresent)
     => Iterations = 0
  /\ op \in {"list::atomic", "map::atomic"} => Iterations = 0

\* list::set on old [1] with new [1, 2]: two iterations, of which the first
\* appends nothing.
C20_Witness ==
  /\ op = "list::set" /\ OldPresent
  /\ iters = << <<1>>, <<1>>, <<1, 2>> >>
  /\ NewElements = 2

----------------------------------------------------------------------------
(* Further claims about merge_from on serde_json::Value. *)

C23_PatchIdempotent ==
  [][(op = "merge_from" /\ field.c = "Value" /\ other' = other) => self' = self]_vars

\* The JSON value v holds no null at any depth: none of its members or
\* elements is null or holds one.
RECURSIVE NoNullInside(_)
NoNullInside(v) ==
  CASE is_object(v) ->
         \A k \in DOMAIN v.v : ~is_null(v.v[k]) /\ NoNullInside(v.v[k])
    [] v.t = "arr" ->
         \A i \in 1..Len(v.v) : ~is_null(v.v[i]) /\ NoNullInside(v.v[i])
    [] OTHER -> TRUE

\* C24: if the target is an object holding no null at any depth, then after
\* merging any object patch into it no object of the target, reached through
\* objects, has a null member: a null in a patch deletes and is never stored.
C24_NullFreedom ==
  (BothObjects /\ NoNullInside(before)) => NullFree(self)

----------------------------------------------------------------------------
(* Runs of merge_from calls on one JSON object: object patches merged one    *)
(* after the other into the same target, each call recorded.                 *)

RunMembers == {Null, Num(1), OnlyKey("a", Null)}
RunObjects == ObjectsOver(JsonKeys, RunMembers)

InitRun ==
  /\ op = "init"
  /\ field = FieldValue
  /\ self \in RunObjects
  /\ other = Null
  /\ before = self
  /\ iters = <<>>
  /\ calls = <<>>

MergeFromInRun ==
  /\ field.c = "Value"
  /\ Len(calls) < MaxCalls
  /\ \E o \in RunObjects :
       /\ other' = o
       /\ before' = self
       /\ self' = merge_from_Value(self, o)
       /\ calls' = Append(calls, [target |-> self, patch |-> o])
  /\ op' = "merge_from"
  /\ UNCHANGED <<field, iters>>

NextRun == MergeFromInRun

SpecRun == InitRun /\ [][NextRun]_vars

\* The last call of the run whose patch mentions key k, 0 if none does.
LastMention(k) ==
  LET ms == {i \in 1..Len(calls) : k \in DOMAIN calls[i].patch.v}
  IN IF ms = {} THEN 0 ELSE CHOOSE i \in ms : \A j \in ms : j <= i

\* C25: after merging any sequence of object patches into an object target,
\* a top-level key k is present if and only if the last patch that mentions k
\* gave it a non-null value, or no patch mentions k and k was present at the
\* start.
C25_LastWriterWins ==
  calls # <<>> =>
    /\ self.t = "obj"
    /\ \A k \in JsonKeys :
         k \in DOMAIN self.v <=>
           IF LastMention(k) = 0
           THEN k \in DOMAIN calls[1].target.v
           ELSE calls[LastMention(k)].patch.v[k].t # "null"

\* {"a":1,"b":1} patched with {"a":null} and then with {"a":{"a":null}}: "a"
\* is back, its last patch having given it a value, and "b", which no patch
\* mentions, is still there.
C25_Witness ==
  /\ Len(calls) = 2
  /\ calls[1].target = Obj([k \in {"a", "b"} |-> Num(1)])
  /\ calls[1].patch = OnlyKey("a", Null)
  /\ calls[2].patch = OnlyKey("a", OnlyKey("a", Null))
  /\ DOMAIN self.v = {"a", "b"}

----------------------------------------------------------------------------
(* Further claims about the collection strategies. *)

\* C22: under each of the five strategies on an optional carrier, when old is
\* Some(c) and new is None, old is left equal to Some(c): the same elements
\* in the same order with the same values.
C22_AbsentNewKeepsOld ==
  (op \in Strategies /\ OptionalCarrier /\ is_some(before) /\ other = None)
  => self = before

\* map::atomic on an Option<BTreeMap>: old Some({a: {"a":1}, b: {"b":1}}) and
\* an absent new leave old as it was.
C22_Witness ==
  /\ op = "map::atomic" /\ field.carrier = "Option<BTreeMap>"
  /\ before = Some([k \in {"a", "b"} |->
                      IF k = "a" THEN OnlyKey("a", Num(1)) ELSE OnlyKey("b", Num(1))])
  /\ other = None
  /\ self = before

\* C28: list::map with a present old looks for a new item's match among the
\* original old items and the new items appended earlier in the same call:
\* two new items that satisfy the comparators against each other and match
\* no original old item give one appended item, the first, and the second is
\* merged into it.
C28_MatchesAppendedItems ==
  MapLooped =>
    \A i \in 1..Len(NewItems) : \A j \in 1..Len(NewItems) :
      ( /\ i < j
        /\ Matches(NewItems[j], NewItems[i])
        /\ \A h \in 1..(i - 1) : ~Matches(NewItems[i], NewItems[h])
        /\ \A p \in 1..Len(iters[1]) :
             ~Matches(NewItems[i], iters[1][p]) /\ ~Matches(NewItems[j], iters[1][p]) )
      => LET p == Len(iters[i]) + 1
         IN /\ iters[i + 1] = Append(iters[i], NewItems[i])
            /\ Len(iters[j + 1]) = Len(iters[j])
            /\ iters[j + 1] = [iters[j] EXCEPT ![p] = Merged(iters[j][p], NewItems[j])]

\* Items compared by id and merged field by field: [{1, None}] merged with
\* [{2, None}, {2, Some(1)}] becomes [{1, None}, {2, Some(1)}].
C28_Witness ==
  /\ MapLooped /\ field.carrier = "Vec"
  /\ field.key_comparators = <<"by_id">> /\ field.merge_item = "deep"
  /\ before = <<Item(1, None)>>
  /\ other = <<Item(2, None), Item(2, Some(1))>>
  /\ self = <<Item(1, None), Item(2, Some(1))>>

\* C29: list::map with an empty comparator list and a present old: every new
\* item counts as matching, so with a non-empty old every new item is merged
\* into old's first item and old's length is unchanged, and with an empty old
\* the first new item is appended and all later new items are merged into it,
\* so the result has length at most 1.
C29_EmptyComparators ==
  (MapLooped /\ field.key_comparators = <<>>) =>
    IF iters[1] # <<>>
    THEN /\ Len(Last(iters)) = Len(iters[1])
         /\ \A j \in 1..Len(NewItems) :
              iters[j + 1] = [iters[j] EXCEPT ![1] = Merged(iters[j][1], NewItems[j])]
    ELSE /\ Len(Last(iters)) <= 1
         /\ NewItems # <<>> => iters[2] = <<NewItems[1]>>
         /\ \A j \in 2..Len(NewItems) :
              iters[j + 1] = <<Merged(iters[j][1], NewItems[j])>>

\* No comparators, items merged field by field: [{1, None}, {2, None}] merged
\* with [{2, Some(1)}] becomes [{2, Some(1)}, {2, None}], the new item merged
\* into the first old item.
C29_Witness ==
  /\ MapLooped /\ field.carrier = "Vec"
  /\ field.key_comparators = <<>> /\ field.merge_item = "deep"
  /\ before = <<Item(1, None), Item(2, None)>>
  /\ other = <<Item(2, Some(1))>>
  /\ self = <<Item(2, Some(1)), Item(2, None)>>

\* No item of new satisfies the field's comparators against an item old had
\* on entry or against another item of new.
NothingMatches ==
  /\ \A j \in 1..Len(NewItems) : \A p \in 1..Len(iters[1]) :
       ~Matches(NewItems[j], iters[1][p])
  /\ \A i \in 1..Len(NewItems) : \A j \in 1..Len(NewItems) :
       i # j => ~Matches(NewItems[j], NewItems[i])

\* The items of new are pairwise distinct and none is in old on entry.
AllNewToSet ==
  /\ \A j \in 1..Len(NewItems) : \A p \in 1..Len(iters[1]) :
       NewItems[j] # iters[1][p]
  /\ \A i \in 1..Len(NewItems) : \A j \in 1..Len(NewItems) :
       i # j => NewItems[j] # NewItems[i]

\* C30: after list::map or list::set with a present old, the length of old is
\* at least its previous length and at most its previous length plus the
\* length of new; list::map when the comparators match nothing, and list::set
\* when the items of new are all distinct and all absent from old, reach the
\* upper bound exactly.
C30_LengthBounds ==
  (MapLooped \/ SetLooped) =>
    /\ Len(iters[1]) <= Len(Last(iters))
    /\ Len(Last(iters)) <= Len(iters[1]) + Len(NewItems)
    /\ (MapLooped /\ NothingMatches) =>
         Len(Last(iters)) = Len(iters[1]) + Len(NewItems)
    /\ (SetLooped /\ AllNewToSet) =>
         Len(Last(iters)) = Len(iters[1]) + Len(NewItems)

\* list::set on a bare Vec: [2] merged with [1] becomes [2, 1], one element
\* longer.
C30_Witness ==
  /\ SetLooped /\ field.carrier = "Vec"
  /\ before = <<2>> /\ other = <<1>>
  /\ self = <<2, 1>>

\* The Vec behind the carrier x, empty when the carrier is absent.
VecOf(x) == flatten(AsOptVec_as_mut_opt(field.carrier, x))
PresentOld(x) == is_some(AsOptVec_as_mut_opt(field.carrier, x))

----------------------------------------------------------------------------
(* Runs of list::set and list::map calls on one field: the old of each call  *)
(* is what the call before left.  The run starts from an absent old or from  *)
(* one that has no two equal elements (list::set) or no two items satisfying *)
(* the key comparators against each other (list::map).  The list::map       *)
(* fields of a run compare items by id, and their items differ in id only.  *)

\* No two elements of vec are equal.
DuplicateFree(vec) ==
  \A i \in 1..Len(vec) : \A j \in 1..Len(vec) : i # j => vec[i] # vec[j]

\* No two items of vec satisfy all of kc against each other.
DistinctKeys(vec, kc) ==
  \A i \in 1..Len(vec) : \A j \in 1..Len(vec) : i # j => ~all(kc, vec[i], vec[j])

ListRunFields ==
  {f \in ListMapFields : f.key_comparators = <<"by_id">>} \cup ListSetFields

RunItems == [id : 1..MaxId, v : {None}]
RunItemLists == UNION {[1..n -> RunItems] : n \in 0..MaxLen}

RunListsOf(f) ==
  Carried(f.carrier, IF f.c = "list::map" THEN RunItemLists ELSE IdLists)

ListRunStart(f) ==
  {old \in RunListsOf(f) :
     LET vec == flatten(AsOptVec_as_mut_opt(f.carrier, old))
     IN IF f.c = "list::set" THEN DuplicateFree(vec)
        ELSE DistinctKeys(vec, f.key_comparators)}

InitListRun ==
  /\ op = "init"
  /\ field \in ListRunFields
  /\ self \in ListRunStart(field)
  /\ other = self
  /\ before = self
  /\ iters = <<>>
  /\ calls = <<>>

ListMapInRun ==
  /\ field.c = "list::map"
  /\ \E new \in RunListsOf(field) :
       /\ other' = new
       /\ before' = self
       /\ self' = list_map(field.carrier, self, new,
                           field.key_comparators, field.merge_item)
       /\ iters' = list_map_iters(field.carrier, self, new,
                                  field.key_comparators, field.merge_item)
  /\ op' = "list::map"
  /\ UNCHANGED <<field, calls>>

ListSetInRun ==
  /\ field.c = "list::set"
  /\ \E new \in RunListsOf(field) :
       /\ other' = new
       /\ before' = self
       /\ self' = list_set(field.carrier, self, new)
       /\ iters' = list_set_iters(field.carrier, self, new)
  /\ op' = "list::set"
  /\ UNCHANGED <<field, calls>>

NextListRun == ListMapInRun \/ ListSetInRun

SpecListRun == InitListRun /\ [][NextListRun]_vars

\* C26 (as stated): starting from an old that is duplicate-free or absent,
\* after any sequence of list::set merges with arbitrary new sequences old
\* contains no two equal elements, for bare and optional carriers alike.
C26_SetDuplicateFree ==
  field.c = "list::set" => DuplicateFree(VecOf(self))

\* C26 (amended): a list::set merge into a present old that is duplicate-free
\* leaves old present and duplicate-free, whatever new is, so this holds
\* after any sequence of merges that starts from such an old; bare and
\* optional carriers alike.
C26_SetKeepsDuplicateFree ==
  [][(field.c = "list::set" /\ PresentOld(self) /\ DuplicateFree(VecOf(self)))
     => (PresentOld(self') /\ DuplicateFree(VecOf(self')))]_vars

\* Some([1]) merged with Some([2, 2]): the 2 is appended once.
C26_Witness ==
  /\ op = "list::set" /\ field.carrier = "Option<Vec>"
  /\ before = Some(<<1>>) /\ other = Some(<<2, 2>>)
  /\ self = Some(<<1, 2>>)

\* C27 (as stated): when the key comparators form an equality on an item key
\* and merge_item does not change that key, starting from an old that has
\* pairwise distinct keys or is absent, after any sequence of list::map merges
\* old has pairwise distinct keys, for bare and optional carriers alike.
C27_MapKeysUnique ==
  (field.c = "list::map" /\ field.key_comparators = <<"by_id">>) => DistinctKeys(VecOf(self), field.key_comparators)

\* C27 (amended): under the same comparators and merge_item, a list::map
\* merge into a present old with pairwise distinct keys leaves old present
\* with pairwise distinct keys, so this holds after any sequence of merges
\* that starts from such an old; bare and optional carriers alike.
C27_MapKeepsKeysUnique ==
  [][(field.c = "list::map" /\ PresentOld(self)
      /\ DistinctKeys(VecOf(self), field.key_comparators))
     => (PresentOld(self')
         /\ DistinctKeys(VecOf(self'), field.key_comparators))]_vars

\* Keys compared by id: Some([{1, None}]) merged with Some([{2, None},
\* {2, None}]) appends one item with id 2, the second merged into it.
C27_Witness ==
  /\ op = "list::map" /\ field.carrier = "Option<Vec>"
  /\ field.key_comparators = <<"by_id">>
  /\ before = Some(<<Item(1, None)>>)
  /\ other = Some(<<Item(2, None), Item(2, None)>>)
  /\ self = Some(<<Item(1, None), Item(2, None)>>)

=============================================================================
